---- MODULE Spec2Model ----
(***************************************************************************)
(* The MV production pipeline of src/app.py and src/media_processor.py as  *)
(* state machines:                                                         *)
(*   Spec       one call of MediaProcessor.create_mv_from_clips            *)
(*   BeatSpec   the beat sidecar CSV: process_audio_file writes it,        *)
(*              load_beat_data reads it                                    *)
(*   WatchSpec  the watcher (MediaFileHandler.on_created) and the stage    *)
(*              handlers it starts as threads                              *)
(*   CallSpec   finalize_assets called without the watcher                 *)
(*   DelivSpec  the MV generation requests of concurrent sessions          *)
(*   ForeignSpec the watcher with files of other kinds put into the folders*)
(*   RerunSpec  the watcher started over archives that hold earlier files  *)
(*   MovedSpec  RerunSpec with load_beat_data called for moved audio files *)
(*   TwinSpec   finalize_assets called on two clips of one base name       *)
(*   PairSpec   create_mv_from_clips invocations sharing temp_dir          *)
(*                                                                         *)
(* Time is counted in ticks of half a second, so that the beat grid of     *)
(* 0.0, 0.5, ... seconds and the "/ 2" seconds of the padding heuristic    *)
(* are whole numbers: 1 s = 2 ticks.  The planner only adds, subtracts,    *)
(* compares and takes minima of times, which is exact on ticks.            *)
(*                                                                         *)
(* One call of create_mv_from_clips runs from pc = "entry" to pc = "done". *)
(* Its inputs (the audio file, the persisted beat CSV, the clips and what  *)
(* ffprobe reports for them) are chosen in Init; the outcome of every      *)
(* ffmpeg invocation is chosen when the invocation happens.                *)
(***************************************************************************)
EXTENDS Integers, Sequences, FiniteSets, Bags, TLC

VARIABLES
    pc,              \* position in create_mv_from_clips
    video_clips,     \* argument: per clip, the duration ffprobe reports (0: probe fails)
    audio_exists,    \* audio_path.exists()
    audio_probe,     \* what ffprobe reports for the audio (0: probe fails or no duration)
    beat_csv,        \* logs_dir/<stem>_beats.csv: [kind, times]
    sync_to_beat,    \* argument, reassigned at line 1112
    audio_duration,  \* local
    beat_data,       \* local: None or the dict load_beat_data returns
    clip_durations,  \* local list
    mode,            \* which planning branch of line 1125 was taken
    i,               \* loop variable of the beat loop (0-based beat index)
    clip_index,      \* local
    current_time,    \* local of the sequential branch
    clip_segments,   \* local list of segment dicts
    seg_pos,         \* enumerate() position of the extraction loop
    segment_files,   \* local list: per file, [idx, dur]
    temp_files,      \* files present in temp_dir
    concat_list,     \* lines of concat_list.txt: the duration of each listed file
    combined_video,  \* local: name of the track file that will be muxed
    video_len,       \* actual duration of the file combined_video names
    match_raised,    \* whether `except: pass` of line 1306 swallowed an exception
    output,          \* output_path on disk: [exists, size]
    probes,          \* ffmpeg.probe invocations so far
    runs,            \* ffmpeg ... .run() invocations so far
    log,             \* levels passed to log_callback, in order
    result           \* return value: "None" while running, then "True" / "False"

\* The beat sidecar files: process_audio_file writes them, load_beat_data
\* reads them.
VARIABLES
    logs_dir,        \* logs_dir/<key>_beats.csv per key: the text of the file, or NoFile
    analysed,        \* per key, the beat_times array last handed to to_csv with success
    reloaded         \* the last load_beat_data call: its key, what it returned and logged

beatVars == <<logs_dir, analysed, reloaded>>

\* The stage folders, the watcher on them and the handlers it starts.
VARIABLES
    fs,              \* the files under BASE_DIR: path -> [asset, state]
    folders,         \* the set folders in final_assets_dir
    events,          \* create events the observer has queued, oldest first
    on_created,      \* the observer thread inside MediaFileHandler.on_created
    processed_files, \* MediaFileHandler.processed_files
    workers,         \* handler calls, running and over, in the order they started
    processing_logs, \* what log_callback was given: a bag of [level, file]
    drops,           \* files put into a stage folder from outside so far
    echoed,          \* paths for which the file system has repeated the create event
    calls            \* handler calls made by other callers than the watcher so far

watchVars == <<fs, folders, events, on_created, processed_files, workers,
               processing_logs, drops, echoed, calls>>

\* The MV generation requests of the sessions and the deliverables folder.
VARIABLES
    deliverables,    \* the files in mv_output_dir: path -> [asset, state]
    requests         \* the presses of the generate button, in the order they came

delivVars == <<deliverables, requests>>

\* create_mv_from_clips invocations that run at the same time and the
\* temporary directory they share.
VARIABLES
    temp_dir,        \* the files in tempdir/mvai_mv: name -> [from, n]
    invocations      \* the invocations, in the order they began

pairVars == <<temp_dir, invocations>>

\* What create_mv_from_clips does not touch
otherVars == <<beatVars, watchVars, delivVars, pairVars>>

mvVars == <<pc, video_clips, audio_exists, audio_probe, beat_csv, sync_to_beat,
            audio_duration, beat_data, clip_durations, mode, i, clip_index,
            current_time, clip_segments, seg_pos, segment_files, temp_files,
            concat_list, combined_video, video_len, match_raised, output,
            probes, runs, log, result>>

vars == <<mvVars, otherVars>>

\* ------------------------------------------------------------------ bounds

MaxClips == 2
MaxClipDur == 3
MaxAudio == 8
MaxBeats == 9
MaxFirstBeat == 1
MaxInterval == 2
\* Cap on the length of a plan: the sequential loop appends without limit
\* when no clip has a positive duration.
MaxSegments == 12

\* The beat sidecar files: latest beat of an analysed grid, in ticks
MaxBeatTick == 3

\* The stage folders: files put in from outside, repeated create events,
\* handler calls by other callers than the watcher
MaxDrops == 1
MaxEchoes == 1
MaxCalls == 2

\* MV generation: presses of the generate button
MaxRequests == 3

\* Invocations of create_mv_from_clips at the same time, segments of a plan
MaxInvocations == 2
MaxPlan == 2

\* --------------------------------------------------------- program constants

\* beats_per_clip = 4
BEATS_PER_CLIP == 4
\* int((audio_duration - combined_duration) / 2): 2 seconds, in ticks
PAD_DIVISOR == 4

\* ------------------------------------------------------------------ helpers

Min(a, b) == IF a <= b THEN a ELSE b

RECURSIVE SumSeq(_)
SumSeq(s) == IF s = <<>> THEN 0 ELSE s[1] + SumSeq(Tail(s))

Durations(segs) == [k \in 1..Len(segs) |-> segs[k].duration]

\* Python's None, where a dict may stand instead
None == [none |-> TRUE]

\* ------------------------------------------------------------------ inputs

\* A beat grid as the beat tracker yields it for a steady tempo: strictly
\* increasing, first beat b0, beats `step` apart.
BeatGrid(b0, step, n) == [j \in 1..n |-> b0 + (j - 1) * step]

BeatGrids ==
    {BeatGrid(b0, step, n) : b0 \in 0..MaxFirstBeat, step \in 1..MaxInterval,
                             n \in 0..MaxBeats}

NoCsv == [kind |-> "absent", times |-> <<>>]

BeatCsvs ==
    {[kind |-> k, times |-> <<>>] : k \in {"absent", "malformed", "unreadable"}}
    \cup {[kind |-> "ok", times |-> g] : g \in BeatGrids}

ClipPools == UNION {[1..n -> 0..MaxClipDur] : n \in 0..MaxClips}

\* Scenario A: 65 s of audio, clips of 10, 20 and 5 s, no beat grid.
ScenarioA ==
    [audio_exists |-> TRUE, audio_probe |-> 130, sync |-> FALSE,
     csv |-> NoCsv, clips |-> <<20, 40, 10>>]

\* Scenario B: 9 beats at 0.0, 0.5, ..., 4.0 s, two clips of 3 s; the audio
\* ends on the last beat or half a second after it.
ScenarioB ==
    {[audio_exists |-> TRUE, audio_probe |-> a, sync |-> TRUE,
      csv |-> [kind |-> "ok", times |-> [j \in 1..9 |-> j - 1]],
      clips |-> <<6, 6>>] : a \in {8, 9}}

\* The calls considered: with beat sync requested, every CSV; without it the
\* CSV is never read, and neither it is when the audio is missing or cannot
\* be probed.
Inputs ==
    [audio_exists : {TRUE}, audio_probe : 1..MaxAudio, sync : {TRUE},
     csv : BeatCsvs, clips : ClipPools]
    \cup [audio_exists : {TRUE}, audio_probe : 1..MaxAudio, sync : {FALSE},
          csv : {NoCsv}, clips : ClipPools]
    \cup [audio_exists : BOOLEAN, audio_probe : {0}, sync : BOOLEAN,
          csv : {NoCsv}, clips : ClipPools]
    \cup {ScenarioA} \cup ScenarioB

\* ------------------------------------------------------------------ logging

Logged(levels) == log' = log \o levels

\* return False / return True
Return(value) == /\ result' = value
                 /\ pc' = "done"

\* ------------------------------------------------------------ load_beat_data

\* BpmOf with a plausible fault: the mean interval of the whole grid
BpmOf_MeanInterval(beat_times) ==
    IF Len(beat_times) >= 2
    THEN IF beat_times[Len(beat_times)] - beat_times[1] > 0
         THEN [num |-> 120 * (Len(beat_times) - 1),
               den |-> beat_times[Len(beat_times)] - beat_times[1]]
         ELSE [num |-> 120, den |-> 1]
    ELSE [num |-> 120, den |-> 1]

\* 60.0 / beat_interval, as the fraction num/den: an interval of d ticks is
\* d/2 seconds, so the tempo is 120/d beats per minute.
BpmOf(beat_times) ==
    IF Len(beat_times) >= 2
    THEN IF beat_times[2] - beat_times[1] > 0
         THEN [num |-> 120, den |-> beat_times[2] - beat_times[1]]
         ELSE [num |-> 120, den |-> 1]
    ELSE [num |-> 120, den |-> 1]

\* The value load_beat_data returns and the levels it logs.
load_beat_data(csv) ==
    CASE csv.kind = "absent" ->
           [data |-> None, logs |-> <<"WARNING">>]
      [] csv.kind = "malformed" ->
           [data |-> None, logs |-> <<"ERROR">>]
      [] csv.kind = "unreadable" ->
           [data |-> None, logs |-> <<"ERROR">>]
      [] OTHER ->
           [data |-> [bpm |-> BpmOf(csv.times), beat_times |-> csv.times,
                      total_beats |-> Len(csv.times)],
            logs |-> <<>>]

\* `if beat_data:` a dict with three keys is true whatever its beat_times hold
Truthy(data) == data # None

\* --------------------------------------------------------------- the planner

\* `if sync_to_beat and beat_data:`
BeatSynced(sync, data) == sync /\ Truthy(data)

\* segment_start of the window whose first beat has 0-based index `ix`
SegmentStart(beat_times, ix) == beat_times[ix + 1]

\* SegmentEnd with a plausible fault: the leftover beats open no window
SegmentEnd_NoTail(beat_times, ix, ad) ==
    IF ix + BEATS_PER_CLIP < Len(beat_times)
    THEN beat_times[ix + BEATS_PER_CLIP + 1]
    ELSE beat_times[ix + 1]

\* segment_end of that window
SegmentEnd(beat_times, ix, ad) ==
    IF ix + BEATS_PER_CLIP < Len(beat_times)
    THEN beat_times[ix + BEATS_PER_CLIP + 1]
    ELSE ad

\* SelectClip with a plausible fault: the round robin starts one clip late
SelectClip_OffByOne(ci, n) == ((ci + 1) % n) + 1

\* clip_index % len(video_clips), as a 1-based position
SelectClip(ci, n) == (ci % n) + 1

\* ClipIndexAfterWindow with a plausible fault: every window advances clip_index
ClipIndexAfterWindow_Always(ci, segment_duration) == ci + 1

\* clip_index after a beat window of duration `segment_duration`: the
\* `continue` of a window without duration comes before any increment
ClipIndexAfterWindow(ci, segment_duration) ==
    IF segment_duration <= 0 THEN ci ELSE ci + 1

\* UseDuration with a plausible fault: the clip is used whole
UseDuration_Whole(clip_duration, available) == clip_duration

\* UseDuration with a plausible fault: the longer of the two is taken
UseDuration_Longer(clip_duration, available) ==
    IF clip_duration >= available THEN clip_duration ELSE available

\* use_duration = min(clip_duration, ...)
UseDuration(clip_duration, available) == Min(clip_duration, available)

Segment(clip, duration, output_start) ==
    [clip |-> clip, start_time |-> 0, duration |-> duration,
     output_start |-> output_start]

\* OutputOk with a plausible fault: the size is not looked at
OutputOk_ExistsOnly(out) == out.exists

\* `output_path.exists() and output_path.stat().st_size > 0`
OutputOk(out) == out.exists /\ out.size > 0

\* ------------------------------------------------------ the beat sidecar CSV

\* Base names of audio files: the key of a sidecar is file_path.stem.  A
\* stem is the sequence of its parts, "song" or "song" "_hq" "(" "1" ")".
Keys == {<<"song">>, <<"demo">>}

\* The elements of a set of times in increasing order
RECURSIVE Ascending(_)
Ascending(S) ==
    IF S = {} THEN <<>>
    ELSE LET m == CHOOSE x \in S : \A y \in S : x <= y
         IN  <<m>> \o Ascending(S \ {m})

\* What the beat tracker can yield: strictly increasing beat times
AnalysedGrids == {Ascending(S) : S \in SUBSET (0..MaxBeatTick)}

Digits == <<"0", "1", "2", "3", "4", "5", "6", "7", "8", "9">>

DigitVal(c) == CHOOSE d \in 0..9 : Digits[d + 1] = c

\* str() of a non-negative int, one character per element
RECURSIVE Decimal(_)
Decimal(n) ==
    IF n < 10 THEN <<Digits[n + 1]>>
    ELSE Decimal(n \div 10) \o <<Digits[(n % 10) + 1]>>

\* int() of such a string
RECURSIVE ParseDecimal(_)
ParseDecimal(cs) ==
    IF cs = <<>> THEN 0
    ELSE 10 * ParseDecimal(SubSeq(cs, 1, Len(cs) - 1)) + DigitVal(cs[Len(cs)])

\* FormatFloat with a plausible fault: the fraction is not written
FormatFloat_NoFraction(t) == Decimal(t \div 2) \o <<".", "0">>

\* to_csv writes a float64 as its repr: t ticks are t/2 seconds, "1.5"
FormatFloat(t) ==
    Decimal(t \div 2) \o <<".">> \o (IF t % 2 = 1 THEN <<"5">> ELSE <<"0">>)

\* read_csv parses a cell of a float column, back to ticks
ParseFloat(cs) ==
    LET dot == CHOOSE k \in 1..Len(cs) : cs[k] = "."
    IN  2 * ParseDecimal(SubSeq(cs, 1, dot - 1))
        + (IF SubSeq(cs, dot + 1, Len(cs)) = <<"5">> THEN 1 ELSE 0)

NoFile == [exists |-> FALSE, bom |-> FALSE, lines |-> <<>>]

\* A file that was opened for writing and never written
EmptyFile == [exists |-> TRUE, bom |-> FALSE, lines |-> <<>>]

\* A CSV of another tool under the sidecar's name: no beat_time_seconds column
ForeignCsv ==
    [exists |-> TRUE, bom |-> FALSE, lines |-> <<<< <<"time">> >>, << <<"0", ".", "0">> >>>>]

\* pd.DataFrame({'beat_time_seconds': beat_times, 'beat_index': range(len)})
\*   .to_csv(csv_path, index=False, encoding='utf-8-sig'):
\* the byte order mark, the header line, one line per beat
to_csv(beat_times) ==
    [exists |-> TRUE, bom |-> TRUE,
     lines |-> << << <<"beat_time_seconds">>, <<"beat_index">> >> >>
               \o [j \in 1..Len(beat_times) |->
                      <<FormatFloat(beat_times[j]), Decimal(j - 1)>>]]

\* csv_path.exists(), pd.read_csv(csv_path, encoding='utf-8-sig') and
\* df['beat_time_seconds'], as the record load_beat_data works on
read_csv(file) ==
    IF ~ file.exists THEN [kind |-> "absent", times |-> <<>>]
    ELSE IF file.lines = <<>> THEN [kind |-> "unreadable", times |-> <<>>]
    ELSE LET header == file.lines[1]
             cols == {c \in 1..Len(header) : header[c] = <<"beat_time_seconds">>}
         IN  IF cols = {} THEN [kind |-> "malformed", times |-> <<>>]
             ELSE LET c == CHOOSE x \in cols : TRUE
                  IN  [kind |-> "ok",
                       times |-> [r \in 1..(Len(file.lines) - 1) |->
                                    ParseFloat(file.lines[r + 1][c])]]

NotAnalysed == [known |-> FALSE, beat_times |-> <<>>]

NotReloaded ==
    [called |-> FALSE, key |-> <<>>, ret |-> [data |-> None, logs |-> <<>>],
     of |-> NotAnalysed]

\* No sidecar has been written or read
BeatIdle ==
    /\ logs_dir = [k \in Keys |-> NoFile]
    /\ analysed = [k \in Keys |-> NotAnalysed]
    /\ reloaded = NotReloaded

\* ---------------------------------------------------------- the stage folders

input_audio_dir == "01_Input"
input_video_dir == "02_Sora"
ai_video_dir == "04_AI"
hq_video_dir == "05_HQ"
lipsync_video_dir == "06_LipSync"
final_assets_dir == "99_Assets"

\* The archive sub-folder of a stage folder, and the audio sub-folder of
\* final_assets_dir
USED == "Used"
AUDIO_FILES == "AudioFiles"

\* A path below BASE_DIR: stage folder, sub-folder (<<>>: none), stem, suffix
Path(dir, sub, stem, ext) ==
    [dir |-> dir, sub |-> sub, stem |-> stem, ext |-> ext]

NoPath == Path("", <<>>, <<>>, "")

valid_audio_extensions == {"mp3", "wav", "flac", "m4a", "aac", "ogg", "wma"}
valid_video_extensions == {"mp4", "avi", "mov", "mkv", "wmv", "flv", "webm", "m4v"}

\* observer.schedule(event_handler, ..., recursive=False)
WatchedDirs ==
    {input_audio_dir, input_video_dir, ai_video_dir, hq_video_dir,
     lipsync_video_dir}

Watched(p) == p.dir \in WatchedDirs /\ p.sub = <<>>

\* InUsed with a plausible fault: the archive is not recognised
InUsed_Never(p) == FALSE

\* `"使用済み素材" in file_path.parts`
InUsed(p) == \E k \in 1..Len(p.sub) : p.sub[k] = USED

\* f"{stem}({counter}){suffix}"; counter 0 stands for the plain name
Numbered(stem, counter) ==
    IF counter = 0 THEN stem ELSE stem \o <<"(">> \o Decimal(counter) \o <<")">>

\* FreeCounter with a plausible fault: the plain name is taken as it is
FreeCounter_Plain(taken, stem) == 0

\* counter = 1; while path.exists(): ...; counter += 1, over the names taken
FreeCounter(taken, stem) ==
    CHOOSE n \in 0..Cardinality(taken) :
        /\ Numbered(stem, n) \notin taken
        /\ \A m \in 0..(n - 1) : Numbered(stem, m) \in taken

\* The first path of that form at which `files` holds no file
FreePath(files, dir, sub, stem, ext) ==
    LET taken == {q.stem : q \in {x \in DOMAIN files :
                                   x.dir = dir /\ x.sub = sub /\ x.ext = ext}}
    IN  Path(dir, sub, Numbered(stem, FreeCounter(taken, stem)), ext)

\* open(path, 'w') and write, shutil.copy2: the file at p holds c
Write(files, p, c) ==
    [q \in DOMAIN files \cup {p} |-> IF q = p THEN c ELSE files[q]]

\* Path.unlink
Remove(files, p) == [q \in DOMAIN files \ {p} |-> files[q]]

\* shutil.move(src, dst)
Move(files, src, dst) == Write(Remove(files, src), dst, files[src])

NoFiles == [q \in {} |-> [asset |-> 0, state |-> "whole"]]

\* on_created is not running
Idle == [pc |-> "idle", file_path |-> NoPath]

\* No file in any stage folder, the watcher just started
WatchIdle ==
    /\ fs = NoFiles
    /\ folders = {}
    /\ events = <<>>
    /\ on_created = Idle
    /\ processed_files = {}
    /\ workers = <<>>
    /\ processing_logs = EmptyBag
    /\ drops = 0
    /\ echoed = {}
    /\ calls = 0

mv_output_dir == "98_MV"

\* No deliverable yet, no generation requested
DelivIdle ==
    /\ deliverables = NoFiles
    /\ requests = <<>>

\* No create_mv_from_clips invocation besides the one of Spec
PairIdle ==
    /\ temp_dir = NoFiles
    /\ invocations = <<>>

\* --------------------------------------------------------------------- Init

Init ==
    /\ \E inp \in Inputs :
         /\ video_clips = inp.clips
         /\ audio_exists = inp.audio_exists
         /\ audio_probe = inp.audio_probe
         /\ beat_csv = inp.csv
         /\ sync_to_beat = inp.sync
    /\ pc = "entry"
    /\ audio_duration = 0
    /\ beat_data = None
    /\ clip_durations = <<>>
    /\ mode = "none"
    /\ i = 0
    /\ clip_index = 0
    /\ current_time = 0
    /\ clip_segments = <<>>
    /\ seg_pos = 0
    /\ segment_files = <<>>
    /\ temp_files = {}
    /\ concat_list = <<>>
    /\ combined_video = [name |-> "combined_video.mp4", no |-> 0]
    /\ video_len = 0
    /\ match_raised = FALSE
    /\ output = [exists |-> FALSE, size |-> 0]
    /\ probes = 0
    /\ runs = 0
    /\ log = <<>>
    /\ result = "None"
    /\ BeatIdle
    /\ WatchIdle
    /\ DelivIdle
    /\ PairIdle

\* No create_mv_from_clips call is under way
NoMvCall ==
    /\ pc = "idle"
    /\ video_clips = <<>>
    /\ audio_exists = FALSE
    /\ audio_probe = 0
    /\ beat_csv = NoCsv
    /\ sync_to_beat = FALSE
    /\ audio_duration = 0
    /\ beat_data = None
    /\ clip_durations = <<>>
    /\ mode = "none"
    /\ i = 0
    /\ clip_index = 0
    /\ current_time = 0
    /\ clip_segments = <<>>
    /\ seg_pos = 0
    /\ segment_files = <<>>
    /\ temp_files = {}
    /\ concat_list = <<>>
    /\ combined_video = [name |-> "combined_video.mp4", no |-> 0]
    /\ video_len = 0
    /\ match_raised = FALSE
    /\ output = [exists |-> FALSE, size |-> 0]
    /\ probes = 0
    /\ runs = 0
    /\ log = <<>>
    /\ result = "None"

inputVars == <<video_clips, audio_exists, audio_probe, beat_csv>>
planVars == <<mode, i, clip_index, current_time, clip_segments>>
assemblyVars == <<seg_pos, segment_files, temp_files, concat_list,
                  combined_video, video_len, match_raised, output, runs>>

\* ------------------------------------------------------------------ actions

\* Lines 1081-1102: the start message, the audio file's existence, its
\* probed duration, the temporary directory.
CheckAudio ==
    /\ pc = "entry"
    /\ IF ~audio_exists
       THEN /\ Logged(<<"INFO", "ERROR">>)
            /\ Return("False")
            /\ UNCHANGED <<audio_duration, probes>>
       ELSE /\ probes' = probes + 1
            /\ audio_duration' = audio_probe
            /\ IF audio_probe <= 0
               THEN /\ Logged(<<"INFO", "ERROR">>)
                    /\ Return("False")
               ELSE /\ Logged(<<"INFO">>)
                    /\ pc' = "load_beats"
                    /\ UNCHANGED result
    /\ UNCHANGED <<otherVars, inputVars, sync_to_beat, beat_data, clip_durations,
                   planVars, assemblyVars>>

\* Lines 1104-1112: the beat data, and the fall back to the plain plan.
LoadBeats ==
    /\ pc = "load_beats"
    /\ IF sync_to_beat
       THEN LET r == load_beat_data(beat_csv) IN
            /\ beat_data' = r.data
            /\ IF Truthy(r.data)
               THEN /\ Logged(r.logs \o <<"INFO">>)
                    /\ UNCHANGED sync_to_beat
               ELSE /\ Logged(r.logs \o <<"WARNING">>)
                    /\ sync_to_beat' = FALSE
       ELSE UNCHANGED <<beat_data, sync_to_beat, log>>
    /\ pc' = "probe_clips"
    /\ UNCHANGED <<otherVars, inputVars, audio_duration, clip_durations, planVars,
                   assemblyVars, probes, result>>

\* Lines 1114-1129 and 1172-1176: one probe per clip (0 when it fails), then
\* the choice of the planning branch.
ProbeClips ==
    /\ pc = "probe_clips"
    /\ clip_durations' = video_clips
    /\ probes' = probes + Len(video_clips)
    /\ IF BeatSynced(sync_to_beat, beat_data)
       THEN /\ mode' = "beat"
            /\ pc' = "beat_loop"
       ELSE /\ mode' = "seq"
            /\ pc' = "seq_loop"
    /\ UNCHANGED <<otherVars, inputVars, sync_to_beat, audio_duration, beat_data, i,
                   clip_index, current_time, clip_segments, assemblyVars,
                   log, result>>

\* Lines 1134-1168: one iteration of `for i in range(0, len(beat_times), 4)`.
\* With no clips `clip_index % len(video_clips)` raises ZeroDivisionError,
\* which the handler of line 1358 logs.
BeatWindow ==
    /\ pc = "beat_loop"
    /\ i < Len(beat_data.beat_times)
    /\ LET segment_start == SegmentStart(beat_data.beat_times, i)
           segment_end == SegmentEnd(beat_data.beat_times, i, audio_duration)
           segment_duration == segment_end - segment_start
       IN  IF segment_duration <= 0
           THEN /\ i' = i + BEATS_PER_CLIP
                /\ clip_index' = ClipIndexAfterWindow(clip_index, segment_duration)
                /\ UNCHANGED <<pc, clip_segments, log, result>>
           ELSE IF Len(video_clips) = 0
           THEN /\ Logged(<<"ERROR">>)
                /\ Return("False")
                /\ UNCHANGED <<i, clip_index, clip_segments>>
           ELSE LET clip == SelectClip(clip_index, Len(video_clips))
                    clip_duration == clip_durations[clip]
                IN  /\ i' = i + BEATS_PER_CLIP
                    /\ clip_index' = ClipIndexAfterWindow(clip_index, segment_duration)
                    /\ clip_segments' =
                         IF clip_duration <= 0
                         THEN clip_segments
                         ELSE Append(clip_segments,
                                     Segment(clip,
                                             UseDuration(clip_duration, segment_duration),
                                             segment_start))
                    /\ UNCHANGED <<pc, log, result>>
    /\ UNCHANGED <<otherVars, inputVars, sync_to_beat, audio_duration, beat_data,
                   clip_durations, mode, current_time, assemblyVars, probes>>

\* Line 1170: the beat loop is over.
BeatLoopEnd ==
    /\ pc = "beat_loop"
    /\ i >= Len(beat_data.beat_times)
    /\ Logged(<<"INFO">>)
    /\ pc' = "extract"
    /\ UNCHANGED <<otherVars, inputVars, sync_to_beat, audio_duration, beat_data,
                   clip_durations, planVars, assemblyVars, probes, result>>

\* Lines 1178-1193: one iteration of `while current_time < audio_duration`.
SeqStep ==
    /\ pc = "seq_loop"
    /\ current_time < audio_duration
    /\ Len(clip_segments) < MaxSegments
    /\ IF Len(video_clips) = 0
       THEN /\ Logged(<<"ERROR">>)
            /\ Return("False")
            /\ UNCHANGED <<clip_index, current_time, clip_segments>>
       ELSE LET clip == SelectClip(clip_index, Len(video_clips))
                clip_duration == clip_durations[clip]
                remaining == audio_duration - current_time
                use_duration == UseDuration(clip_duration, remaining)
            IN  /\ clip_segments' =
                     Append(clip_segments, Segment(clip, use_duration, current_time))
                /\ current_time' = current_time + use_duration
                /\ clip_index' = clip_index + 1
                /\ UNCHANGED <<pc, log, result>>
    /\ UNCHANGED <<otherVars, inputVars, sync_to_beat, audio_duration, beat_data,
                   clip_durations, mode, i, assemblyVars, probes>>

\* Line 1195: the while loop is over.
SeqLoopEnd ==
    /\ pc = "seq_loop"
    /\ current_time >= audio_duration
    /\ Logged(<<"INFO">>)
    /\ pc' = "extract"
    /\ UNCHANGED <<otherVars, inputVars, sync_to_beat, audio_duration, beat_data,
                   clip_durations, planVars, assemblyVars, probes, result>>

\* --------------------------------------------------------------- the assembly

\* Files of temp_dir: segment_<k>.mp4, concat_list.txt, combined_video.mp4,
\* trimmed_combined.mp4
SegmentFile(k) == [name |-> "segment", no |-> k]
CONCAT_FILE == [name |-> "concat_list.txt", no |-> 0]
COMBINED == [name |-> "combined_video.mp4", no |-> 0]
TRIMMED == [name |-> "trimmed_combined.mp4", no |-> 0]

\* int((audio_duration - combined_duration) / 2) + 1 repeats of the final segment
PadRepeats(ad, combined_duration) == (ad - combined_duration) \div PAD_DIVISOR + 1

Repeat(x, n) == [k \in 1..n |-> x]

\* Duration of what a concat run writes for the listed files, cut at `limit`
ConcatDuration(list, limit) == Min(SumSeq(list), limit)

\* Lines 1201-1221: one iteration of the extraction loop.  run() raises
\* ffmpeg.Error on a non-zero exit status (handled at line 1348) and otherwise
\* returns with the segment file written, so that `segment_file.exists()`
\* holds and the file is listed.
ExtractSegment ==
    /\ pc = "extract"
    /\ seg_pos < Len(clip_segments)
    /\ runs' = runs + 1
    /\ \/ /\ Logged(<<"ERROR">>)
          /\ Return("False")
          /\ UNCHANGED <<seg_pos, segment_files, temp_files>>
       \/ /\ seg_pos' = seg_pos + 1
          /\ temp_files' = temp_files \cup {SegmentFile(seg_pos)}
          /\ segment_files' =
               Append(segment_files,
                      [idx |-> seg_pos, dur |-> clip_segments[seg_pos + 1].duration])
          /\ UNCHANGED <<pc, log, result>>
    /\ UNCHANGED <<otherVars, inputVars, sync_to_beat, audio_duration, beat_data,
                   clip_durations, planVars, concat_list, combined_video,
                   video_len, match_raised, output, probes>>

\* Lines 1223-1237: no segment file is an error; otherwise the concat list
\* is written.
WriteConcatList ==
    /\ pc = "extract"
    /\ seg_pos >= Len(clip_segments)
    /\ IF segment_files = <<>>
       THEN /\ Logged(<<"ERROR">>)
            /\ Return("False")
            /\ UNCHANGED <<concat_list, temp_files>>
       ELSE /\ concat_list' = [k \in 1..Len(segment_files) |-> segment_files[k].dur]
            /\ temp_files' = temp_files \cup {CONCAT_FILE}
            /\ pc' = "concat"
            /\ UNCHANGED <<log, result>>
    /\ UNCHANGED <<otherVars, inputVars, sync_to_beat, audio_duration, beat_data,
                   clip_durations, planVars, seg_pos, segment_files,
                   combined_video, video_len, match_raised, output, probes, runs>>

\* Lines 1239-1263: the concat run and its own ffmpeg.Error handler.
Concat ==
    /\ pc = "concat"
    /\ runs' = runs + 1
    /\ \/ /\ temp_files' = temp_files \cup {COMBINED}
          /\ video_len' = SumSeq(concat_list)
          /\ pc' = "match"
          /\ UNCHANGED <<log, result>>
       \/ /\ Logged(<<"ERROR">>)
          /\ Return("False")
          /\ UNCHANGED <<temp_files, video_len>>
    /\ UNCHANGED <<otherVars, inputVars, sync_to_beat, audio_duration, beat_data,
                   clip_durations, planVars, seg_pos, segment_files,
                   concat_list, combined_video, match_raised, output, probes>>

\* Lines 1265-1307: the combined track is probed and padded or trimmed; any
\* exception in the block is swallowed by `except: pass`.
MatchDuration ==
    /\ pc = "match"
    /\ probes' = probes + 1
    /\ pc' = "mux"
    /\ \/ \* the probe raises (or st_size is 0 in the unused loop_count of line 1273)
          /\ match_raised' = TRUE
          /\ UNCHANGED <<concat_list, temp_files, combined_video, video_len, runs>>
       \/ \* shorter: repeats of the final segment, then the re-concat cut at the audio
          /\ video_len < audio_duration
          /\ concat_list' =
               concat_list \o Repeat(segment_files[Len(segment_files)].dur,
                                     PadRepeats(audio_duration, video_len))
          /\ runs' = runs + 1
          /\ \/ /\ video_len' = ConcatDuration(concat_list', audio_duration)
                /\ match_raised' = FALSE
             \/ /\ match_raised' = TRUE
                /\ UNCHANGED video_len
          /\ UNCHANGED <<temp_files, combined_video>>
       \/ \* longer: stream copy of the first audio_duration into the trimmed file
          /\ video_len > audio_duration
          /\ runs' = runs + 1
          /\ \/ /\ temp_files' = temp_files \cup {TRIMMED}
                /\ combined_video' = TRIMMED
                /\ video_len' = audio_duration
                /\ match_raised' = FALSE
             \/ /\ match_raised' = TRUE
                /\ UNCHANGED <<temp_files, combined_video, video_len>>
          /\ UNCHANGED concat_list
       \/ \* equal
          /\ video_len = audio_duration
          /\ UNCHANGED <<concat_list, temp_files, combined_video, video_len,
                         match_raised, runs>>
    /\ UNCHANGED <<otherVars, inputVars, sync_to_beat, audio_duration, beat_data,
                   clip_durations, planVars, seg_pos, segment_files, output,
                   log, result>>

\* Lines 1309-1326: the mux run.  It writes the output (possibly an empty or
\* no file), or raises ffmpeg.Error (handled at line 1348) with or without a
\* partial file left behind.
Mux ==
    /\ pc = "mux"
    /\ runs' = runs + 1
    /\ \/ /\ \E size \in {0, 1} : output' = [exists |-> TRUE, size |-> size]
          /\ pc' = "cleanup"
          /\ UNCHANGED <<log, result>>
       \/ /\ UNCHANGED output
          /\ pc' = "cleanup"
          /\ UNCHANGED <<log, result>>
       \/ /\ output' \in {output, [exists |-> TRUE, size |-> 1]}
          /\ Logged(<<"ERROR">>)
          /\ Return("False")
    /\ UNCHANGED <<otherVars, inputVars, sync_to_beat, audio_duration, beat_data,
                   clip_durations, planVars, seg_pos, segment_files,
                   temp_files, concat_list, combined_video, video_len,
                   match_raised, probes>>

\* Lines 1328-1346: the listed segment files, the file combined_video names
\* and the concat list are unlinked (all of them exist here), then the result.
Finish ==
    /\ pc = "cleanup"
    /\ temp_files' =
         temp_files \ ({SegmentFile(segment_files[k].idx) : k \in 1..Len(segment_files)}
                       \cup {combined_video, CONCAT_FILE})
    /\ IF OutputOk(output)
       THEN /\ Logged(<<"SUCCESS">>)
            /\ Return("True")
       ELSE /\ Logged(<<"ERROR">>)
            /\ Return("False")
    /\ UNCHANGED <<otherVars, inputVars, sync_to_beat, audio_duration, beat_data,
                   clip_durations, planVars, seg_pos, segment_files,
                   concat_list, combined_video, video_len, match_raised, output,
                   probes, runs>>

Next ==
    \/ CheckAudio
    \/ LoadBeats
    \/ ProbeClips
    \/ BeatWindow
    \/ BeatLoopEnd
    \/ SeqStep
    \/ SeqLoopEnd
    \/ ExtractSegment
    \/ WriteConcatList
    \/ Concat
    \/ MatchDuration
    \/ Mux
    \/ Finish

Spec == Init /\ [][Next]_vars

\* ------------------------------------------- persisting and reloading beats

\* What the sidecar actions leave alone
beatFrame == <<mvVars, watchVars, delivVars, pairVars>>

\* The logs folder holds no sidecar, or a CSV of another tool under a
\* sidecar's name.
BeatInit ==
    /\ NoMvCall
    /\ WatchIdle
    /\ DelivIdle
    /\ PairIdle
    /\ logs_dir \in [Keys -> {NoFile, ForeignCsv}]
    /\ analysed = [k \in Keys |-> NotAnalysed]
    /\ reloaded = NotReloaded

\* process_audio_file, lines 93-117, for an audio file of stem k whose
\* analysis yielded beat_times: the sidecar is written over whatever was
\* there.
PersistBeats(k, beat_times) ==
    /\ logs_dir' = [logs_dir EXCEPT ![k] = to_csv(beat_times)]
    /\ analysed' = [analysed EXCEPT ![k] =
                       [known |-> TRUE, beat_times |-> beat_times]]
    /\ UNCHANGED <<reloaded, beatFrame>>

\* The write of the sidecar of stem k raises: before the file is opened, or
\* after it was truncated.
PersistFails(k) ==
    /\ \/ /\ UNCHANGED <<logs_dir, analysed>>
       \/ /\ logs_dir' = [logs_dir EXCEPT ![k] = EmptyFile]
          /\ analysed' = [analysed EXCEPT ![k] = NotAnalysed]
    /\ UNCHANGED <<reloaded, beatFrame>>

\* load_beat_data(audio_file_path) for a path of stem k
ReloadBeats(k) ==
    /\ reloaded' = [called |-> TRUE, key |-> k,
                    ret |-> load_beat_data(read_csv(logs_dir[k])),
                    of |-> analysed[k]]
    /\ UNCHANGED <<logs_dir, analysed, beatFrame>>

BeatNext ==
    \/ \E k \in Keys, g \in AnalysedGrids : PersistBeats(k, g)
    \/ \E k \in Keys : PersistFails(k)
    \/ \E k \in Keys : ReloadBeats(k)

BeatSpec == BeatInit /\ [][BeatNext]_vars

\* ------------------------------------------------ the watcher and its handlers

\* What the watcher and the handlers leave alone
watchFrame == <<mvVars, reloaded, delivVars, pairVars>>
sidecars == <<logs_dir, analysed>>
envVars == <<drops, echoed, calls>>
watcherVars == <<on_created, processed_files>>

\* A file archived by an earlier session
ArchivedClip == Path(lipsync_video_dir, <<USED>>, <<"old">>, "mp4")

\* The stage folders are empty when the watcher starts.
InitialFiles == {NoFiles}

\* The files put into stage folders from outside
DropPaths ==
    {Path(input_audio_dir, <<>>, <<"song">>, "mp3"),
     Path(input_audio_dir, <<>>, <<"song">>, "txt"),
     Path(ai_video_dir, <<>>, <<"clip">>, "mp4")}

\* The beat grid the analysis of a dropped audio file yields
WatchedGrids == {<<0, 1, 2>>}

WatchInit ==
    /\ NoMvCall
    /\ BeatIdle
    /\ DelivIdle
    /\ PairIdle
    /\ fs \in InitialFiles
    /\ folders = {}
    /\ events = <<>>
    /\ on_created = Idle
    /\ processed_files = {}
    /\ workers = <<>>
    /\ processing_logs = EmptyBag
    /\ drops = 0
    /\ echoed = {}
    /\ calls = 0

Entry(level, p) == [level |-> level, file |-> p]

RECURSIVE BagOf(_)
BagOf(entries) ==
    IF entries = <<>> THEN EmptyBag
    ELSE SetToBag({entries[1]}) (+) BagOf(Tail(entries))

\* log_callback(..., level) for each level, about file p
WLog(levels, p) ==
    processing_logs' =
        processing_logs (+) BagOf([k \in 1..Len(levels) |-> Entry(levels[k], p)])

\* The file system reports the creation of p when p lies in a watched folder
Created(p) ==
    events' = IF Watched(p) /\ p \notin DOMAIN fs THEN Append(events, p)
              ELSE events

\* A handler call on p; `moved` and `made` record what the call has done to
\* the file system: whether it moved p away, and what it created and left.
NewWorker(handler, p, by) ==
    [handler |-> handler, file_path |-> p, pc |-> "start",
     output_path |-> NoPath, used_path |-> NoPath, started_by |-> by,
     failed |-> FALSE, moved |-> FALSE, made |-> {}]

\* Seen with a plausible fault: no path counts as processed
Seen_Never(p, processed) == FALSE

\* `if str(file_path) in self.processed_files`
Seen(p, processed) == p \in processed

\* The branch of lines 219-248
HandlerOf(dir) ==
    CASE dir = input_audio_dir -> "audio"
      [] dir = input_video_dir -> "video"
      [] dir = ai_video_dir -> "quality"
      [] dir = hq_video_dir -> "lipsync"
      [] dir = lipsync_video_dir -> "finalize"

\* The folder a handler takes its files from
SourceDir(handler) ==
    CASE handler = "quality" -> ai_video_dir
      [] handler = "lipsync" -> hq_video_dir
      [] handler = "finalize" -> lipsync_video_dir

\* `not file_path.exists()` or `file_path.stat().st_size == 0`
Unusable(p) == p \notin DOMAIN fs \/ fs[p].state = "empty"

\* -- the environment

\* A file is put into a stage folder.
Drop(p) ==
    /\ drops < MaxDrops
    /\ p \notin DOMAIN fs
    /\ fs' = Write(fs, p, [asset |-> drops + 1, state |-> "whole"])
    /\ Created(p)
    /\ drops' = drops + 1
    /\ UNCHANGED <<watchFrame, sidecars, folders, watcherVars, workers,
                   processing_logs, echoed, calls>>

\* The file system emits one more create event for a file that is there.
Echo(p) ==
    /\ Cardinality(echoed) < MaxEchoes
    /\ p \in DOMAIN fs
    /\ Watched(p)
    /\ p \notin echoed
    /\ events' = Append(events, p)
    /\ echoed' = echoed \cup {p}
    /\ UNCHANGED <<watchFrame, sidecars, fs, folders, watcherVars, workers,
                   processing_logs, drops, calls>>

\* The handlers called by other callers than the watcher
CalledHandlers == {"finalize"}

\* A handler is called on a video found below its source folder, archive
\* included, by another caller than the watcher.
Call(handler, p) ==
    /\ calls < MaxCalls
    /\ p \in DOMAIN fs
    /\ p.dir = SourceDir(handler)
    /\ p.ext \in valid_video_extensions
    /\ workers' = Append(workers, NewWorker(handler, p, "caller"))
    /\ calls' = calls + 1
    /\ UNCHANGED <<watchFrame, sidecars, fs, folders, events, watcherVars,
                   processing_logs, drops, echoed>>

\* -- MediaFileHandler.on_created

\* Lines 178-189: the next event is taken up; a path already processed is
\* dropped, any other one is slept on.
OnCreatedCheck ==
    /\ on_created.pc = "idle"
    /\ events # <<>>
    /\ events' = Tail(events)
    /\ on_created' = IF Seen(Head(events), processed_files) THEN Idle
                     ELSE [pc |-> "sleep", file_path |-> Head(events)]
    /\ UNCHANGED <<watchFrame, sidecars, fs, folders, processed_files, workers,
                   processing_logs, envVars>>

\* Lines 191-248: after the sleep, the existence and extension checks, the
\* insertion into processed_files and the start of the handler thread.
OnCreatedDispatch ==
    LET p == on_created.file_path
    IN  /\ on_created.pc = "sleep"
        /\ on_created' = Idle
        /\ IF p \notin DOMAIN fs
           THEN UNCHANGED <<processed_files, workers, processing_logs>>
           ELSE IF \/ p.dir = input_audio_dir /\ p.ext \notin valid_audio_extensions
                   \/ p.dir = input_video_dir /\ p.ext \notin valid_video_extensions
           THEN /\ WLog(<<"ERROR">>, p)
                /\ UNCHANGED <<processed_files, workers>>
           ELSE /\ processed_files' = processed_files \cup {p}
                /\ workers' = Append(workers, NewWorker(HandlerOf(p.dir), p, "watcher"))
                /\ UNCHANGED processing_logs
        /\ UNCHANGED <<watchFrame, sidecars, fs, folders, events, envVars>>

\* -- the handlers

\* An error exit of the handler call w
Fail(w) == workers' = [workers EXCEPT ![w].pc = "done", ![w].failed = TRUE]

\* process_audio_file, lines 61-117: the checks, the analysis and the sidecar
AudioAnalyse(w) ==
    LET p == workers[w].file_path
    IN  /\ workers[w].handler = "audio"
        /\ workers[w].pc = "start"
        /\ IF Unusable(p)
           THEN /\ WLog(<<"ERROR">>, p)
                /\ Fail(w)
                /\ UNCHANGED sidecars
           ELSE \/ /\ WLog(<<"INFO", "ERROR">>, p)
                   /\ Fail(w)
                   /\ UNCHANGED sidecars
                \/ \E g \in WatchedGrids :
                     /\ logs_dir' = [logs_dir EXCEPT ![p.stem] = to_csv(g)]
                     /\ analysed' = [analysed EXCEPT ![p.stem] =
                                        [known |-> TRUE, beat_times |-> g]]
                     /\ WLog(<<"INFO", "SUCCESS">>, p)
                     /\ workers' = [workers EXCEPT ![w].pc = "move"]
        /\ UNCHANGED <<watchFrame, fs, folders, events, watcherVars, envVars>>

\* process_audio_file, lines 119-134: the move into the audio sub-folder
AudioMove(w) ==
    LET p == workers[w].file_path
        dest_path == FreePath(fs, final_assets_dir, <<AUDIO_FILES>>, p.stem, p.ext)
    IN  /\ workers[w].handler = "audio"
        /\ workers[w].pc = "move"
        /\ \/ /\ p \in DOMAIN fs
              /\ fs' = Move(fs, p, dest_path)
              /\ WLog(<<"INFO">>, p)
              /\ workers' = [workers EXCEPT ![w].pc = "done", ![w].moved = TRUE,
                                            ![w].output_path = dest_path]
           \/ /\ WLog(<<"ERROR">>, p)
              /\ Fail(w)
              /\ UNCHANGED fs
        /\ UNCHANGED <<watchFrame, sidecars, folders, events, watcherVars, envVars>>

\* trigger_quality_pipeline, lines 265-375: the checks, the probe and the
\* choice of the output path
QualityStart(w) ==
    LET p == workers[w].file_path
    IN  /\ workers[w].handler = "quality"
        /\ workers[w].pc = "start"
        /\ IF Unusable(p)
           THEN /\ WLog(<<"ERROR">>, p)
                /\ Fail(w)
           ELSE \/ /\ WLog(<<"INFO", "ERROR">>, p)
                   /\ Fail(w)
                \/ /\ WLog(<<"INFO", "INFO", "INFO", "INFO">>, p)
                   /\ workers' =
                        [workers EXCEPT
                           ![w].pc = "transcode",
                           ![w].output_path =
                               FreePath(fs, hq_video_dir, <<>>,
                                        p.stem \o <<"_hq">>, p.ext)]
        /\ UNCHANGED <<watchFrame, sidecars, fs, folders, events, watcherVars,
                       envVars>>

\* The handlers of lines 474-505: the error is logged and what lies at the
\* output path is unlinked.
QualityError(w) ==
    /\ WLog(<<"ERROR">>, workers[w].file_path)
    /\ fs' = Remove(fs, workers[w].output_path)
    /\ workers' = [workers EXCEPT ![w].pc = "done", ![w].failed = TRUE,
                                  ![w].made = {}]

\* Lines 377-416: ffmpeg starts and opens the output file in hq_video_dir,
\* or fails before it does.
QualityOpen(w) ==
    LET p == workers[w].file_path
        output_path == workers[w].output_path
    IN  /\ workers[w].handler = "quality"
        /\ workers[w].pc = "transcode"
        /\ \/ /\ p \in DOMAIN fs
              /\ fs' = Write(fs, output_path,
                             [asset |-> fs[p].asset, state |-> "partial"])
              /\ Created(output_path)
              /\ workers' = [workers EXCEPT ![w].pc = "encoding",
                                            ![w].made = {output_path}]
              /\ UNCHANGED processing_logs
           \/ /\ QualityError(w)
              /\ UNCHANGED events
        /\ UNCHANGED <<watchFrame, sidecars, folders, watcherVars, envVars>>

\* Lines 403-416: ffmpeg ends, with the output written out, with an empty
\* output, or with an error.  An output that was moved away meanwhile is not
\* written at the output path again.
QualityClose(w) ==
    LET output_path == workers[w].output_path
    IN  /\ workers[w].handler = "quality"
        /\ workers[w].pc = "encoding"
        /\ \/ /\ \E state \in {"whole", "empty"} :
                    fs' = IF output_path \in DOMAIN fs
                          THEN [fs EXCEPT ![output_path].state = state]
                          ELSE fs
              /\ workers' = [workers EXCEPT ![w].pc = "verify"]
              /\ UNCHANGED processing_logs
           \/ QualityError(w)
        /\ UNCHANGED <<watchFrame, sidecars, folders, events, watcherVars,
                       envVars>>

\* Lines 418-473: the output is looked at and the original archived.
QualityVerify(w) ==
    LET p == workers[w].file_path
        output_path == workers[w].output_path
        used_path == FreePath(fs, ai_video_dir, <<USED>>, p.stem, p.ext)
    IN  /\ workers[w].handler = "quality"
        /\ workers[w].pc = "verify"
        /\ IF output_path \notin DOMAIN fs
           THEN /\ WLog(<<"ERROR", "ERROR">>, p)
                /\ Fail(w)
                /\ UNCHANGED fs
           ELSE IF fs[output_path].state = "empty"
           THEN /\ WLog(<<"ERROR">>, p)
                /\ fs' = Remove(fs, output_path)
                /\ workers' = [workers EXCEPT ![w].pc = "done",
                                 ![w].failed = TRUE, ![w].made = {}]
           ELSE IF InUsed(p)
           THEN /\ WLog(<<"SUCCESS", "INFO", "INFO">>, p)
                /\ workers' = [workers EXCEPT ![w].pc = "done"]
                /\ UNCHANGED fs
           ELSE IF p \notin DOMAIN fs
           THEN /\ WLog(<<"SUCCESS", "INFO">>, p)
                /\ workers' = [workers EXCEPT ![w].pc = "done"]
                /\ UNCHANGED fs
           ELSE \/ /\ fs' = Move(fs, p, used_path)
                   /\ WLog(<<"SUCCESS", "INFO", "INFO">>, p)
                   /\ workers' = [workers EXCEPT ![w].pc = "done",
                                    ![w].moved = TRUE, ![w].used_path = used_path]
                \/ /\ WLog(<<"SUCCESS", "INFO", "WARNING">>, p)
                   /\ workers' = [workers EXCEPT ![w].pc = "done"]
                   /\ UNCHANGED fs
        /\ UNCHANGED <<watchFrame, sidecars, folders, events, watcherVars,
                       envVars>>

\* process_lipsync, lines 529-551: the checks and the choice of the output path
LipsyncStart(w) ==
    LET p == workers[w].file_path
    IN  /\ workers[w].handler = "lipsync"
        /\ workers[w].pc = "start"
        /\ IF Unusable(p)
           THEN /\ WLog(<<"ERROR">>, p)
                /\ Fail(w)
           ELSE /\ WLog(<<"INFO">>, p)
                /\ workers' =
                     [workers EXCEPT
                        ![w].pc = "copy",
                        ![w].output_path =
                            FreePath(fs, lipsync_video_dir, <<>>,
                                     p.stem \o <<"_lipsync">>, p.ext)]
        /\ UNCHANGED <<watchFrame, sidecars, fs, folders, events, watcherVars,
                       envVars>>

\* Line 564: shutil.copy2 into lipsync_video_dir; when it raises (line 597)
\* nothing or a partial copy is left.
LipsyncCopy(w) ==
    LET p == workers[w].file_path
        output_path == workers[w].output_path
    IN  /\ workers[w].handler = "lipsync"
        /\ workers[w].pc = "copy"
        /\ \/ /\ p \in DOMAIN fs
              /\ fs' = Write(fs, output_path, fs[p])
              /\ Created(output_path)
              /\ workers' = [workers EXCEPT ![w].pc = "archive",
                                            ![w].made = {output_path}]
              /\ UNCHANGED processing_logs
           \/ /\ p \in DOMAIN fs
              /\ fs' = Write(fs, output_path,
                             [asset |-> fs[p].asset, state |-> "partial"])
              /\ Created(output_path)
              /\ WLog(<<"ERROR">>, p)
              /\ workers' = [workers EXCEPT ![w].pc = "done", ![w].failed = TRUE,
                                            ![w].made = {output_path}]
           \/ /\ WLog(<<"ERROR">>, p)
              /\ Fail(w)
              /\ UNCHANGED <<fs, events>>
        /\ UNCHANGED <<watchFrame, sidecars, folders, watcherVars, envVars>>

\* Lines 566-595: the copy is looked at and the original archived.
LipsyncArchive(w) ==
    LET p == workers[w].file_path
        used_path == FreePath(fs, hq_video_dir, <<USED>>, p.stem, p.ext)
    IN  /\ workers[w].handler = "lipsync"
        /\ workers[w].pc = "archive"
        /\ IF workers[w].output_path \notin DOMAIN fs
           THEN /\ WLog(<<"ERROR">>, p)
                /\ Fail(w)
                /\ UNCHANGED fs
           ELSE IF InUsed(p)
           THEN /\ WLog(<<"SUCCESS", "INFO">>, p)
                /\ workers' = [workers EXCEPT ![w].pc = "done"]
                /\ UNCHANGED fs
           ELSE \/ /\ p \in DOMAIN fs
                   /\ fs' = Move(fs, p, used_path)
                   /\ WLog(<<"SUCCESS", "INFO">>, p)
                   /\ workers' = [workers EXCEPT ![w].pc = "done",
                                    ![w].moved = TRUE, ![w].used_path = used_path]
                \/ /\ WLog(<<"SUCCESS", "WARNING">>, p)
                   /\ workers' = [workers EXCEPT ![w].pc = "done"]
                   /\ UNCHANGED fs
        /\ UNCHANGED <<watchFrame, sidecars, folders, events, watcherVars,
                       envVars>>

\* The set folder as a path, for the record of what a call made
FolderPath(name) == Path(final_assets_dir, name, <<>>, "")

\* finalize_assets, lines 619-658: the checks, the probe and the choice of
\* the set folder's name
FinalizeStart(w) ==
    LET p == workers[w].file_path
    IN  /\ workers[w].handler = "finalize"
        /\ workers[w].pc = "start"
        /\ IF Unusable(p)
           THEN /\ WLog(<<"ERROR">>, p)
                /\ Fail(w)
           ELSE \/ /\ WLog(<<"INFO", "ERROR">>, p)
                   /\ Fail(w)
                \/ /\ WLog(<<"INFO">>, p)
                   /\ workers' =
                        [workers EXCEPT
                           ![w].pc = "mkdir",
                           ![w].output_path =
                               FolderPath(Numbered(p.stem,
                                                   FreeCounter(folders, p.stem)))]
        /\ UNCHANGED <<watchFrame, sidecars, fs, folders, events, watcherVars,
                       envVars>>

\* Lines 660-672: mkdir(exist_ok=True) and the choice of the video's path in
\* the set folder
FinalizeMkdir(w) ==
    LET p == workers[w].file_path
        set_folder == workers[w].output_path.sub
    IN  /\ workers[w].handler = "finalize"
        /\ workers[w].pc = "mkdir"
        /\ folders' = folders \cup {set_folder}
        /\ WLog(<<"INFO">>, p)
        /\ workers' =
             [workers EXCEPT
                ![w].pc = "transfer",
                ![w].output_path =
                    FreePath(fs, final_assets_dir, set_folder, p.stem, p.ext),
                ![w].made = IF set_folder \in folders THEN {}
                            ELSE {FolderPath(set_folder)}]
        /\ UNCHANGED <<watchFrame, sidecars, fs, events, watcherVars, envVars>>

\* Lines 674-693: a file of an archive is copied into the set folder, any
\* other one is first moved into the archive of lipsync_video_dir.
FinalizeTransfer(w) ==
    LET p == workers[w].file_path
        dest_video_path == workers[w].output_path
        used_path == FreePath(fs, lipsync_video_dir, <<USED>>, p.stem, p.ext)
    IN  /\ workers[w].handler = "finalize"
        /\ workers[w].pc = "transfer"
        /\ \/ /\ p \in DOMAIN fs
              /\ IF InUsed(p)
                 THEN /\ fs' = Write(fs, dest_video_path, fs[p])
                      /\ workers' =
                           [workers EXCEPT
                              ![w].pc = "xml",
                              ![w].made = workers[w].made \cup {dest_video_path}]
                 ELSE /\ fs' = Move(fs, p, used_path)
                      /\ workers' = [workers EXCEPT ![w].pc = "copy",
                                       ![w].moved = TRUE, ![w].used_path = used_path]
              /\ WLog(<<"INFO">>, p)
           \/ /\ WLog(<<"ERROR">>, p)
              /\ Fail(w)
              /\ UNCHANGED fs
        /\ UNCHANGED <<watchFrame, sidecars, folders, events, watcherVars,
                       envVars>>

\* Lines 695-700: the archived file is copied into the set folder.
FinalizeCopy(w) ==
    LET p == workers[w].file_path
        dest_video_path == workers[w].output_path
    IN  /\ workers[w].handler = "finalize"
        /\ workers[w].pc = "copy"
        /\ \/ /\ workers[w].used_path \in DOMAIN fs
              /\ fs' = Write(fs, dest_video_path, fs[workers[w].used_path])
              /\ WLog(<<"INFO">>, p)
              /\ workers' =
                   [workers EXCEPT
                      ![w].pc = "xml",
                      ![w].made = workers[w].made \cup {dest_video_path}]
           \/ /\ WLog(<<"ERROR">>, p)
              /\ Fail(w)
              /\ UNCHANGED fs
        /\ UNCHANGED <<watchFrame, sidecars, folders, events, watcherVars,
                       envVars>>

\* Lines 702-767: the metadata file is written, or its writing fails and is
\* logged; either way the call ends with its closing message.
FinalizeXml(w) ==
    LET p == workers[w].file_path
        set_folder == workers[w].output_path.sub
        xml_path == FreePath(fs, final_assets_dir, set_folder,
                             p.stem \o <<"_metadata">>, "xml")
    IN  /\ workers[w].handler = "finalize"
        /\ workers[w].pc = "xml"
        /\ \/ /\ workers[w].output_path \in DOMAIN fs
              /\ fs' = Write(fs, xml_path,
                             [asset |-> fs[workers[w].output_path].asset,
                              state |-> "whole"])
              /\ WLog(<<"SUCCESS", "SUCCESS">>, p)
              /\ workers' =
                   [workers EXCEPT ![w].pc = "done",
                                   ![w].made = workers[w].made \cup {xml_path}]
           \/ /\ WLog(<<"ERROR", "SUCCESS">>, p)
              /\ workers' = [workers EXCEPT ![w].pc = "done"]
              /\ UNCHANGED fs
        /\ UNCHANGED <<watchFrame, sidecars, folders, events, watcherVars,
                       envVars>>

WatchNext ==
    \/ \E p \in DropPaths : Drop(p)
    \/ \E p \in DOMAIN fs : Echo(p)
    \/ OnCreatedCheck
    \/ OnCreatedDispatch
    \/ \E w \in DOMAIN workers : AudioAnalyse(w)
    \/ \E w \in DOMAIN workers : AudioMove(w)
    \/ \E w \in DOMAIN workers : QualityStart(w)
    \/ \E w \in DOMAIN workers : QualityOpen(w)
    \/ \E w \in DOMAIN workers : QualityClose(w)
    \/ \E w \in DOMAIN workers : QualityVerify(w)
    \/ \E w \in DOMAIN workers : LipsyncStart(w)
    \/ \E w \in DOMAIN workers : LipsyncCopy(w)
    \/ \E w \in DOMAIN workers : LipsyncArchive(w)
    \/ \E w \in DOMAIN workers : FinalizeStart(w)
    \/ \E w \in DOMAIN workers : FinalizeMkdir(w)
    \/ \E w \in DOMAIN workers : FinalizeTransfer(w)
    \/ \E w \in DOMAIN workers : FinalizeCopy(w)
    \/ \E w \in DOMAIN workers : FinalizeXml(w)

WatchSpec == WatchInit /\ [][WatchNext]_vars

\* ------------------------------------------- handlers called without the watcher

\* A lip-synced clip waiting in lipsync_video_dir
PendingClip == Path(lipsync_video_dir, <<>>, <<"clip">>, "mp4")

\* The watcher is not running; lipsync_video_dir holds a clip and its
\* archive an older one.
CallInit ==
    /\ NoMvCall
    /\ BeatIdle
    /\ DelivIdle
    /\ PairIdle
    /\ fs = Write(Write(NoFiles, ArchivedClip, [asset |-> 0, state |-> "whole"]),
                  PendingClip, [asset |-> 1, state |-> "whole"])
    /\ folders = {}
    /\ events = <<>>
    /\ on_created = Idle
    /\ processed_files = {}
    /\ workers = <<>>
    /\ processing_logs = EmptyBag
    /\ drops = 0
    /\ echoed = {}
    /\ calls = 0

CallNext ==
    \/ \E handler \in CalledHandlers, p \in DOMAIN fs : Call(handler, p)
    \/ \E w \in DOMAIN workers : FinalizeStart(w)
    \/ \E w \in DOMAIN workers : FinalizeMkdir(w)
    \/ \E w \in DOMAIN workers : FinalizeTransfer(w)
    \/ \E w \in DOMAIN workers : FinalizeCopy(w)
    \/ \E w \in DOMAIN workers : FinalizeXml(w)

CallSpec == CallInit /\ [][CallNext]_vars

\* ------------------------------------------- files of other kinds in the folders

\* A text file put into each of the watched folders
ForeignPaths == {Path(dir, <<>>, <<"notes">>, "txt") : dir \in WatchedDirs}

\* The watcher and the video handlers, with text files put into the folders
ForeignNext ==
    \/ \E p \in ForeignPaths : Drop(p)
    \/ \E p \in DOMAIN fs : Echo(p)
    \/ OnCreatedCheck
    \/ OnCreatedDispatch
    \/ \E w \in DOMAIN workers : QualityStart(w)
    \/ \E w \in DOMAIN workers : QualityOpen(w)
    \/ \E w \in DOMAIN workers : QualityClose(w)
    \/ \E w \in DOMAIN workers : QualityVerify(w)
    \/ \E w \in DOMAIN workers : LipsyncStart(w)
    \/ \E w \in DOMAIN workers : LipsyncCopy(w)
    \/ \E w \in DOMAIN workers : LipsyncArchive(w)
    \/ \E w \in DOMAIN workers : FinalizeStart(w)
    \/ \E w \in DOMAIN workers : FinalizeMkdir(w)
    \/ \E w \in DOMAIN workers : FinalizeTransfer(w)
    \/ \E w \in DOMAIN workers : FinalizeCopy(w)
    \/ \E w \in DOMAIN workers : FinalizeXml(w)

ForeignSpec == WatchInit /\ [][ForeignNext]_vars

\* ------------------------------------------------ the watcher, started again

\* What an earlier session of the watcher left behind for song.mp3 and
\* clip.mp4: the archived originals, the audio file and the set folder
EarlierFiles ==
    [p \in {Path(ai_video_dir, <<USED>>, <<"clip">>, "mp4"),
            Path(hq_video_dir, <<USED>>, <<"clip", "_hq">>, "mp4"),
            Path(lipsync_video_dir, <<USED>>, <<"clip", "_hq", "_lipsync">>, "mp4"),
            Path(final_assets_dir, <<AUDIO_FILES>>, <<"song">>, "mp3")}
        |-> [asset |-> 0, state |-> "whole"]]

\* The watcher starts over folders whose archives hold files of the names
\* that will come again.
RerunInit ==
    /\ NoMvCall
    /\ BeatIdle
    /\ DelivIdle
    /\ PairIdle
    /\ fs = EarlierFiles
    /\ folders = {<<"clip", "_hq", "_lipsync">>}
    /\ events = <<>>
    /\ on_created = Idle
    /\ processed_files = {}
    /\ workers = <<>>
    /\ processing_logs = EmptyBag
    /\ drops = 0
    /\ echoed = {}
    /\ calls = 0

RerunSpec == RerunInit /\ [][WatchNext]_vars

\* ------------------------------------------ beats looked up for a moved audio

\* load_beat_data(dest_path) for the path to which the audio call w moved its
\* file: the key is the stem of that path, lines 887-895.
LoadMoved(w) ==
    LET song_name == workers[w].output_path.stem
        csv == IF song_name \in DOMAIN logs_dir THEN logs_dir[song_name]
               ELSE NoFile
    IN  /\ workers[w].handler = "audio"
        /\ workers[w].moved
        /\ reloaded' = [called |-> TRUE, key |-> song_name,
                        ret |-> load_beat_data(read_csv(csv)),
                        of |-> analysed[workers[w].file_path.stem]]
        /\ UNCHANGED <<mvVars, delivVars, pairVars, sidecars, watchVars>>

MovedNext ==
    \/ WatchNext
    \/ \E w \in DOMAIN workers : LoadMoved(w)

MovedSpec == RerunInit /\ [][MovedNext]_vars

\* ------------------------------------------ two clips of one base name

\* lipsync_video_dir holds clip.mp4 and clip.mov; the watcher is not
\* running and finalize_assets is called on them.
TwinInit ==
    /\ NoMvCall
    /\ BeatIdle
    /\ DelivIdle
    /\ PairIdle
    /\ fs = Write(Write(NoFiles, PendingClip, [asset |-> 1, state |-> "whole"]),
                  Path(lipsync_video_dir, <<>>, <<"clip">>, "mov"),
                  [asset |-> 2, state |-> "whole"])
    /\ folders = {}
    /\ events = <<>>
    /\ on_created = Idle
    /\ processed_files = {}
    /\ workers = <<>>
    /\ processing_logs = EmptyBag
    /\ drops = 0
    /\ echoed = {}
    /\ calls = 0

TwinSpec == TwinInit /\ [][CallNext]_vars

\* ------------------------------------------------------ MV generation requests

\* What a generation request leaves alone
delivFrame == <<mvVars, beatVars, watchVars, pairVars>>

\* The output file names typed in
OutputNames == {<<"mv">>, <<"live">>}

\* BASE_DIR / "98_MV_完成品" / f"{output_filename}.mp4", or with "({counter})"
Deliverable(output_filename, counter) ==
    Path(mv_output_dir, <<>>, Numbered(output_filename, counter), "mp4")

\* A deliverable of an earlier session
EarlierMv == Deliverable(<<"mv">>, 0)

\* The deliverables folder is empty or holds mv.mp4.
DelivInit ==
    /\ NoMvCall
    /\ BeatIdle
    /\ WatchIdle
    /\ PairIdle
    /\ deliverables \in
          {NoFiles, Write(NoFiles, EarlierMv, [asset |-> 0, state |-> "whole"])}
    /\ requests = <<>>

\* Lines 1122-1130: the button is pressed in some session; output_path is
\* the plain name and counter is 1.
Generate(output_filename) ==
    /\ Len(requests) < MaxRequests
    /\ requests' = Append(requests,
                          [output_filename |-> output_filename, pc |-> "probe",
                           output_path |-> Deliverable(output_filename, 0),
                           counter |-> 1])
    /\ UNCHANGED <<deliverables, delivFrame>>

\* Lines 1131-1133: one test of `while output_path.exists()`
Probe(r) ==
    /\ requests[r].pc = "probe"
    /\ requests' =
         IF requests[r].output_path \in DOMAIN deliverables
         THEN [requests EXCEPT
                 ![r].output_path =
                     Deliverable(requests[r].output_filename, requests[r].counter),
                 ![r].counter = requests[r].counter + 1]
         ELSE [requests EXCEPT ![r].pc = "assemble"]
    /\ UNCHANGED <<deliverables, delivFrame>>

\* Lines 1135-1142 with media_processor.py 1309-1326: create_mv_from_clips
\* runs; when it gets to the mux, ffmpeg writes output_path, replacing what
\* is there (overwrite_output), and otherwise it returns without writing.
Assemble(r) ==
    /\ requests[r].pc = "assemble"
    /\ requests' = [requests EXCEPT ![r].pc = "done"]
    /\ \/ deliverables' = Write(deliverables, requests[r].output_path,
                                [asset |-> r, state |-> "whole"])
       \/ UNCHANGED deliverables
    /\ UNCHANGED delivFrame

DelivNext ==
    \/ \E output_filename \in OutputNames : Generate(output_filename)
    \/ \E r \in DOMAIN requests : Probe(r)
    \/ \E r \in DOMAIN requests : Assemble(r)

DelivSpec == DelivInit /\ [][DelivNext]_vars

\* ------------------------------------- create_mv_from_clips, several at a time

\* What the invocations leave alone
pairFrame == <<mvVars, beatVars, watchVars, delivVars>>

\* A file of temp_dir: the invocations whose plan it was made from and, for
\* the concat list, the number of segment files it names
Made(from, n) == [from |-> from, n |-> n]

\* The segment files a concat list of n lines names
Listed(n) == {SegmentFile(k) : k \in 0..(n - 1)}

PairInit ==
    /\ NoMvCall
    /\ BeatIdle
    /\ WatchIdle
    /\ DelivIdle
    /\ temp_dir = NoFiles
    /\ invocations = <<>>

\* Lines 1081-1196: an invocation begins; its audio, clips and output path
\* are its own, its plan has `plan` segments, and temp_dir is
\* tempdir/mvai_mv as for every invocation.
Invoke(plan) ==
    /\ Len(invocations) < MaxInvocations
    /\ invocations' = Append(invocations,
                             [pc |-> "extract", plan |-> plan, seg_pos |-> 0,
                              output |-> {}, result |-> "None"])
    /\ UNCHANGED <<temp_dir, pairFrame>>

\* The handlers of lines 1254-1263 and 1348-1361: return False
Raised(c) == invocations' = [invocations EXCEPT ![c].pc = "done",
                                                ![c].result = "False"]

\* Lines 1201-1221: ffmpeg writes segment_<seg_pos>.mp4 over whatever has
\* that name, or raises.
PairExtract(c) ==
    LET seg_pos_ == invocations[c].seg_pos
    IN  /\ invocations[c].pc = "extract"
        /\ seg_pos_ < invocations[c].plan
        /\ \/ /\ temp_dir' = Write(temp_dir, SegmentFile(seg_pos_), Made({c}, 0))
              /\ invocations' = [invocations EXCEPT ![c].seg_pos = seg_pos_ + 1]
           \/ /\ Raised(c)
              /\ UNCHANGED temp_dir
        /\ UNCHANGED pairFrame

\* Lines 1231-1235: concat_list.txt is written with the names of the
\* segment files of this plan.
PairList(c) ==
    /\ invocations[c].pc = "extract"
    /\ invocations[c].seg_pos = invocations[c].plan
    /\ temp_dir' = Write(temp_dir, CONCAT_FILE, Made({c}, invocations[c].plan))
    /\ invocations' = [invocations EXCEPT ![c].pc = "concat"]
    /\ UNCHANGED pairFrame

\* Lines 1237-1307: ffmpeg reads the concat list that is there and the
\* files it names and writes combined_video.mp4 over whatever has that name;
\* it raises when one of them is missing, or for a reason of its own.
PairConcat(c) ==
    /\ invocations[c].pc = "concat"
    /\ IF /\ CONCAT_FILE \in DOMAIN temp_dir
          /\ Listed(temp_dir[CONCAT_FILE].n) \subseteq DOMAIN temp_dir
       THEN \/ /\ temp_dir' =
                     Write(temp_dir, COMBINED,
                           Made(temp_dir[CONCAT_FILE].from \cup
                                UNION {temp_dir[f].from :
                                         f \in Listed(temp_dir[CONCAT_FILE].n)},
                                0))
               /\ invocations' = [invocations EXCEPT ![c].pc = "mux"]
            \/ /\ Raised(c)
               /\ UNCHANGED temp_dir
       ELSE /\ Raised(c)
            /\ UNCHANGED temp_dir
    /\ UNCHANGED pairFrame

\* Lines 1309-1326: ffmpeg muxes the combined_video.mp4 that is there with
\* the audio into output_path.
PairMux(c) ==
    /\ invocations[c].pc = "mux"
    /\ \/ /\ COMBINED \in DOMAIN temp_dir
          /\ invocations' = [invocations EXCEPT
                                ![c].pc = "cleanup",
                                ![c].output = temp_dir[COMBINED].from]
       \/ Raised(c)
    /\ UNCHANGED <<temp_dir, pairFrame>>

\* The files the unlink calls of lines 1329-1333 remove: the segment files
\* in order, combined_video.mp4, concat_list.txt, up to the first that is
\* missing (its exception ends the block).
Unlinked(files, plan) ==
    LET missing == {k \in 0..(plan - 1) : SegmentFile(k) \notin DOMAIN files}
    IN  IF missing # {}
        THEN {SegmentFile(k) : k \in {j \in 0..(plan - 1) :
                                         \A m \in missing : j < m}}
        ELSE Listed(plan)
             \cup (IF COMBINED \in DOMAIN files THEN {COMBINED} ELSE {})
             \cup (IF {COMBINED, CONCAT_FILE} \subseteq DOMAIN files
                   THEN {CONCAT_FILE} ELSE {})

\* Lines 1328-1346: the cleanup and the result.
PairFinish(c) ==
    /\ invocations[c].pc = "cleanup"
    /\ temp_dir' = [f \in DOMAIN temp_dir \
                          Unlinked(temp_dir, invocations[c].plan) |-> temp_dir[f]]
    /\ invocations' = [invocations EXCEPT ![c].pc = "done",
                                          ![c].result = "True"]
    /\ UNCHANGED pairFrame

PairNext ==
    \/ \E plan \in 1..MaxPlan : Invoke(plan)
    \/ \E c \in DOMAIN invocations : PairExtract(c)
    \/ \E c \in DOMAIN invocations : PairList(c)
    \/ \E c \in DOMAIN invocations : PairConcat(c)
    \/ \E c \in DOMAIN invocations : PairMux(c)
    \/ \E c \in DOMAIN invocations : PairFinish(c)

PairSpec == PairInit /\ [][PairNext]_vars

\* =================================================================== claims

NClips == Len(video_clips)

AllClipsPositive == \A c \in 1..Len(clip_durations) : clip_durations[c] > 0

\* The planning branch has run to its end for a non-empty pool.
PlanComplete ==
    /\ mode # "none"
    /\ pc \notin {"beat_loop", "seq_loop"}
    /\ NClips > 0

BeatTimes == beat_data.beat_times

\* The intervals [output_start, output_start + duration) tile [0, ad).
Tiles(segs, ad) ==
    /\ Len(segs) > 0
    /\ segs[1].output_start = 0
    /\ \A k \in 1..(Len(segs) - 1) :
         segs[k].output_start + segs[k].duration = segs[k + 1].output_start
    /\ segs[Len(segs)].output_start + segs[Len(segs)].duration = ad

\* C1: the segments of a finished beat-synced plan (some beats, all before
\* the end of the audio, some clips, each with a duration) tile [0, audio_duration): the first starts at 0, each
\* ends where the next starts, the last ends at audio_duration.
C1_BeatPlanTiles ==
    (/\ PlanComplete
     /\ mode = "beat"
     /\ Len(BeatTimes) > 0
     /\ BeatTimes[Len(BeatTimes)] < audio_duration
     /\ AllClipsPositive)
        => Tiles(clip_segments, audio_duration)

\* Number of full groups of BEATS_PER_CLIP beats in a grid of 4k+1 beats
FullGroups == Len(BeatTimes) \div BEATS_PER_CLIP

LeftoverGrid ==
    /\ PlanComplete
    /\ mode = "beat"
    /\ Len(BeatTimes) % BEATS_PER_CLIP = 1
    /\ AllClipsPositive

\* C2 as stated: with 4k+1 beats (k >= 1) and usable clips the finished plan
\* has exactly k segments, the leftover beat opening no window.
C2_LeftoverBeatUnused ==
    (LeftoverGrid /\ FullGroups >= 1) => Len(clip_segments) = FullGroups

\* C2 amended: with 4k+1 beats and usable clips the finished plan has the k
\* segments of the full windows [beat_times[4j], beat_times[4j+4]), clips in
\* round robin, and one more segment for the window
\* [beat_times[4k], audio_duration) of the leftover beat exactly when
\* audio_duration > beat_times[4k].
C2_LeftoverBeatOpensTailWindow ==
    LeftoverGrid =>
        LET k == FullGroups
            last == BeatTimes[Len(BeatTimes)]
            tail == IF audio_duration > last THEN 1 ELSE 0
        IN  /\ Len(clip_segments) = k + tail
            /\ \A j \in 1..k :
                 LET lo == BeatTimes[BEATS_PER_CLIP * (j - 1) + 1]
                     hi == BeatTimes[BEATS_PER_CLIP * j + 1]
                     seg == clip_segments[j]
                 IN  /\ seg.output_start = lo
                     /\ seg.clip = ((j - 1) % NClips) + 1
                     /\ seg.duration = Min(clip_durations[seg.clip], hi - lo)
            /\ tail = 1 =>
                 LET seg == clip_segments[k + 1]
                 IN  /\ seg.output_start = last
                     /\ seg.clip = (k % NClips) + 1
                     /\ seg.duration =
                          Min(clip_durations[seg.clip], audio_duration - last)

\* Nine beats, two full windows and the tail window: three segments.
C2_Witness ==
    /\ LeftoverGrid
    /\ FullGroups = 2
    /\ Len(clip_segments) = 3

\* Windows the beat loop has been through
WindowsDone == i \div BEATS_PER_CLIP

\* 0-based ordinal of the window a segment was planned for
WindowOf(seg) ==
    CHOOSE w \in {v \in 0..Len(BeatTimes) : BEATS_PER_CLIP * v + 1 <= Len(BeatTimes)} :
        BeatTimes[BEATS_PER_CLIP * w + 1] = seg.output_start

\* Window w ends after it starts
HasDuration(w) ==
    LET lo == BeatTimes[BEATS_PER_CLIP * w + 1]
        hi == IF BEATS_PER_CLIP * w + BEATS_PER_CLIP < Len(BeatTimes)
              THEN BeatTimes[BEATS_PER_CLIP * w + BEATS_PER_CLIP + 1]
              ELSE audio_duration
    IN  hi - lo > 0

UsesRoundRobinClips ==
    \A k \in 1..Len(clip_segments) :
        clip_segments[k].clip = (WindowOf(clip_segments[k]) % NClips) + 1

\* C3 as stated: in the beat loop clip_index counts the windows gone through,
\* skipped or not, and each segment uses clips[window ordinal mod N].
C3_ClipIndexCountsEveryWindow ==
    (mode = "beat" /\ NClips > 0) =>
        /\ clip_index = WindowsDone
        /\ UsesRoundRobinClips

\* C3 amended: clip_index counts the windows gone through that have a
\* positive duration, those skipped for a clip without duration included; a
\* window skipped because it has no duration leaves clip_index as it is.  In
\* a strictly increasing grid only the last window can be without duration,
\* so each segment still uses clips[window ordinal mod N].
C3_ClipIndexCountsWindowsWithDuration ==
    (mode = "beat" /\ NClips > 0) =>
        /\ clip_index = Cardinality({w \in 0..(WindowsDone - 1) : HasDuration(w)})
        /\ UsesRoundRobinClips

\* Both kinds of skip in one plan: a window whose clip has no duration
\* (clip_index advanced, no segment) and a last window without duration
\* (clip_index left alone).
C3_Witness ==
    /\ PlanComplete
    /\ mode = "beat"
    /\ Len(clip_segments) < clip_index
    /\ clip_index < WindowsDone

\* Sum of the durations of the segments before the k-th
PlacedBefore(k) == SumSeq(Durations(SubSeq(clip_segments, 1, k - 1)))

ScenarioARuns ==
    /\ video_clips = ScenarioA.clips
    /\ audio_probe = ScenarioA.audio_probe
    /\ audio_exists
    /\ beat_csv = ScenarioA.csv

\* C4: in the sequential plan over clips that all have a duration, the k-th
\* segment uses clips[(k-1) mod N] from 0 for min(its duration, what is left
\* of the audio) and starts where the earlier ones end; the finished plan
\* sums to audio_duration with only its last segment cut; 65 s over clips of
\* 10, 20, 5 s gives 10, 20, 5, 10, 20 s.
C4_SequentialPlan ==
    (mode = "seq" /\ NClips > 0 /\ AllClipsPositive) =>
        /\ \A k \in 1..Len(clip_segments) :
             LET seg == clip_segments[k]
             IN  /\ seg.clip = ((k - 1) % NClips) + 1
                 /\ seg.start_time = 0
                 /\ seg.output_start = PlacedBefore(k)
                 /\ seg.duration =
                      Min(clip_durations[seg.clip], audio_duration - PlacedBefore(k))
        /\ PlanComplete =>
             /\ SumSeq(Durations(clip_segments)) = audio_duration
             /\ \A k \in 1..(Len(clip_segments) - 1) :
                  clip_segments[k].duration = clip_durations[clip_segments[k].clip]
        /\ (PlanComplete /\ ScenarioARuns) =>
             Durations(clip_segments) = <<20, 40, 10, 20, 40>>

C4_Witness ==
    /\ PlanComplete
    /\ mode = "seq"
    /\ ScenarioARuns
    /\ Len(clip_segments) = 5
    /\ SumSeq(Durations(clip_segments)) = 130

RECURSIVE MinOf(_)
MinOf(s) == IF Len(s) = 1 THEN s[1] ELSE Min(s[1], MinOf(Tail(s)))

\* C5: a sequential plan whose audio is no longer than the clips together has
\* at most ceil(audio_duration / min d) segments, that is
\* (segments - 1) * min d < audio_duration, and never places more than
\* audio_duration.
C5_SequentialPlanBounded ==
    (mode = "seq" /\ NClips > 0 /\ audio_duration <= SumSeq(clip_durations)) =>
        /\ (Len(clip_segments) - 1) * MinOf(clip_durations) < audio_duration
        /\ SumSeq(Durations(clip_segments)) <= audio_duration

\* A finished plan of as many segments as the bound allows, the last one cut.
C5_Witness ==
    /\ PlanComplete
    /\ mode = "seq"
    /\ audio_duration <= SumSeq(clip_durations)
    /\ MinOf(clip_durations) > 0
    /\ Len(clip_segments) >= 2
    /\ Len(clip_segments) * MinOf(clip_durations) >= audio_duration
    /\ clip_segments[Len(clip_segments)].duration
         < clip_durations[clip_segments[Len(clip_segments)].clip]

\* C6: the sequential loop terminates.  Its next iteration depends only on
\* current_time and clip_index mod N, so it terminates only if a full pass
\* over the pool has moved current_time.
C6_SequentialLoopTerminates ==
    ~ (/\ pc = "seq_loop"
       /\ NClips > 0
       /\ clip_index >= NClips
       /\ current_time = 0)

\* C7: once the branch is chosen, the plan is beat-synced exactly when beat
\* sync is still asked for and the CSV loaded with at least one beat; with no
\* CSV, a CSV that does not load or one without beats the plan is sequential.
C7_BeatSyncedOnlyWithBeats ==
    mode # "none" =>
        (mode = "beat" <=>
            (sync_to_beat /\ beat_csv.kind = "ok" /\ Len(beat_csv.times) > 0))

\* No clip, or no clip with a duration: every segment planned is degenerate.
OnlyDegenerate ==
    \A c \in 1..Len(video_clips) : video_clips[c] <= 0

\* C8: with no clip, or with only degenerate segments, the call fails before
\* any ffmpeg run and writes no output: it logs an error and returns false,
\* and planning does not go on past one pass over the pool.
C8_DegeneratePlanFailsEarly ==
    OnlyDegenerate =>
        /\ runs = 0
        /\ ~ output.exists
        /\ pc = "done" => (result = "False" /\ \E k \in 1..Len(log) : log[k] = "ERROR")
        /\ Len(clip_segments) <= Len(video_clips)

\* C9: when the call succeeds, no exception having been swallowed while the
\* track was padded or trimmed, the muxed video track is as long as the audio.
C9_TrackLengthIsAudioLength ==
    (result = "True" /\ ~ match_raised) => video_len = audio_duration

\* C10: the call returns true only with the output file on disk and not
\* empty, returns false only after an ERROR was logged, and has a result
\* exactly when it is over.
C10_TrueOnlyWithOutput ==
    /\ result = "True" => (output.exists /\ output.size > 0)
    /\ result = "False" => \E k \in 1..Len(log) : log[k] = "ERROR"
    /\ (pc = "done") <=> (result # "None")

\* A call that went through the mux and returned true.
C10_Witness ==
    /\ result = "True"
    /\ runs > 0
    /\ log[Len(log)] = "SUCCESS"

\* C11: once create_mv_from_clips has returned, true or false and on every
\* exit path, none of the intermediate files it created (segment files,
\* concat list, combined track, trimmed track) is left in temp_dir.
C11_NoIntermediateFilesAfterReturn == pc = "done" => temp_files = {}

\* What the last load_beat_data call returned, when it returned a dict
Reloaded == reloaded.ret.data

\* C12: load_beat_data derives the tempo from the first two beat times alone:
\* with at least 2 beats bpm = 60 / (beat_times[1] - beat_times[0]) (120 over
\* the interval in ticks), with fewer it is 120.0, and total_beats is the
\* number of beat times returned.
C12_BpmFromFirstTwoBeats ==
    (reloaded.called /\ Reloaded # None) =>
        LET bt == Reloaded.beat_times
        IN  /\ Reloaded.total_beats = Len(bt)
            /\ Len(bt) >= 2 =>
                   Reloaded.bpm.num * (bt[2] - bt[1]) = 120 * Reloaded.bpm.den
            /\ Len(bt) < 2 => Reloaded.bpm.num = 120 * Reloaded.bpm.den

\* A reloaded grid whose tempo changes after the second beat.
C12_Witness ==
    /\ reloaded.called
    /\ Reloaded # None
    /\ Reloaded.beat_times = <<0, 1, 3>>
    /\ Reloaded.bpm = [num |-> 120, den |-> 1]

StartedOn(p) ==
    {w \in DOMAIN workers :
        workers[w].started_by = "watcher" /\ workers[w].file_path = p}

\* C14: one MediaFileHandler starts at most one handler thread per file
\* path, whatever create events arrive for that path.
C14_OneWorkerPerPath ==
    \A w \in DOMAIN workers :
        workers[w].started_by = "watcher" =>
            StartedOn(workers[w].file_path) = {w}

\* A path whose create event was repeated, both events taken up.
C14_Witness ==
    /\ \E p \in echoed : StartedOn(p) # {}
    /\ events = <<>>
    /\ on_created = Idle

\* The ERROR entries logged about path p
Errors(p) == CopiesIn(Entry("ERROR", p), processing_logs)

\* C15: a file in the audio intake folder whose extension is outside the
\* audio allow-list is never analysed, stays where it is, and has at most
\* one ERROR entry logged about it, however many create events arrive.
C15_RejectedOnce ==
    \A p \in DOMAIN fs :
        (p.dir = input_audio_dir /\ p.sub = <<>>
         /\ p.ext \notin valid_audio_extensions) =>
            /\ StartedOn(p) = {}
            /\ Errors(p) <= 1

\* C16: a handler call that ended on an error exit has made no transition:
\* it has not moved its source file away and has left nothing it created.
C16_FailureLeavesNoTrace ==
    \A w \in DOMAIN workers :
        (workers[w].pc = "done" /\ workers[w].failed) =>
            /\ ~ workers[w].moved
            /\ workers[w].made = {}

\* The stage folders that hold a file of asset a outside their archives
StagesOf(a) ==
    {p.dir : p \in {q \in DOMAIN fs : fs[q].asset = a /\ ~ InUsed(q)}}

\* C17: in every reachable state each asset put into the pipeline is in
\* exactly one stage folder, archives not counted.
C17_OneStagePerAsset ==
    \A a \in 1..drops : Cardinality(StagesOf(a)) = 1

\* C18: the watcher never has a handler running or started on a file whose
\* producing handler call is not over.
C18_StagesStrictlySequential ==
    \A v, w \in DOMAIN workers :
        (/\ v # w
         /\ workers[v].started_by = "watcher"
         /\ workers[v].file_path \in workers[w].made) =>
            workers[w].pc = "done"

\* The finalize calls on a file of an archive
ArchiveFinalizes ==
    {w \in DOMAIN workers :
        workers[w].handler = "finalize" /\ workers[w].file_path.sub = <<USED>>}

\* C19: no step of a finalize_assets call on a file of a Used archive moves,
\* renames, modifies or deletes that file, and the step that transfers the
\* video puts a copy of it into the set folder.
C19_ArchivedFileUntouched ==
    [][\A w \in ArchiveFinalizes :
          LET p == workers[w].file_path
          IN  (workers'[w] # workers[w] /\ p \in DOMAIN fs) =>
                 /\ p \in DOMAIN fs'
                 /\ fs'[p] = fs[p]
                 /\ workers[w].pc = "transfer" =>
                        \/ workers'[w].failed
                        \/ /\ workers'[w].pc = "xml"
                           /\ fs'[workers[w].output_path] = fs[p]]_vars

\* finalize_assets was called twice on the archived clip and both calls went
\* through; the clip is in the archive as before.
C19_Witness ==
    /\ \E v, w \in ArchiveFinalizes :
          /\ v # w
          /\ \A u \in {v, w} :
                /\ workers[u].file_path = ArchivedClip
                /\ workers[u].pc = "done"
                /\ ~ workers[u].failed
                /\ workers[u].output_path \in DOMAIN fs
    /\ ArchivedClip \in DOMAIN fs
    /\ fs[ArchivedClip] = [asset |-> 0, state |-> "whole"]

\* C20: no step of any MV generation request changes or removes a
\* deliverable that is already written: every request writes to a path at
\* which no file existed.
C20_DeliverablesNeverOverwritten ==
    [][\A p \in DOMAIN deliverables :
          p \in DOMAIN deliverables' /\ deliverables'[p] = deliverables[p]]_vars

\* on_created takes up a create event for path p in this step
TakenUp(p) ==
    /\ on_created.pc = "idle"
    /\ events # <<>>
    /\ Head(events) = p
    /\ events' = Tail(events)

\* C21: when a handler call the watcher started has ended on an error exit
\* with its file still in the stage folder, a later create event for that
\* path is not dropped: on_created goes on to the dispatch of the handler.
C21_FailedAssetRetried ==
    [][\A w \in DOMAIN workers :
          LET p == workers[w].file_path
          IN  (/\ workers[w].started_by = "watcher"
               /\ workers[w].pc = "done"
               /\ workers[w].failed
               /\ p \in DOMAIN fs
               /\ TakenUp(p)) =>
                  on_created'.pc = "sleep"]_vars

\* The levels logged by the create_mv_from_clips call
Levels == {log[k] : k \in 1..Len(log)}

\* C22: a create_mv_from_clips call in which an external tool invocation
\* failed returns False after an ERROR entry; here for the probe and the
\* pad or trim runs of the duration matching.
C22_FailuresEndInLoggedError ==
    (pc = "done" /\ match_raised) =>
        /\ result = "False"
        /\ "ERROR" \in Levels

\* C23: when the mux run of create_mv_from_clips raises, so that the call
\* returns from the mux step, no file is left at output_path.
C23_NoPartialOutputAfterToolFailure ==
    [][(pc = "mux" /\ pc' = "done") => ~ output'.exists]_vars

\* The extensions a watched folder is meant to take
AllowList(dir) ==
    IF dir = input_audio_dir THEN valid_audio_extensions
    ELSE valid_video_extensions

\* C24: in every watched folder a created file whose extension is outside
\* the folder's allow-list has no handler call started on it.
C24_ForeignFilesRejected ==
    \A p \in DOMAIN fs :
        (Watched(p) /\ p.ext \notin AllowList(p.dir)) => StartedOn(p) = {}

\* Where the content of a file of a stage folder may lie: at its path, in
\* the archive of its folder or in the audio sub-folder of final_assets_dir
Home(p, q) ==
    \/ q = p
    \/ q.dir = p.dir /\ q.sub = <<USED>>
    \/ p.dir = input_audio_dir /\ q.dir = final_assets_dir /\ q.sub = <<AUDIO_FILES>>

\* A file that was archived or set aside
Archived(q) == InUsed(q) \/ (q.dir = final_assets_dir /\ q.sub = <<AUDIO_FILES>>)

C26_ArchiveAfterOutput ==
    [][\A w \in DOMAIN workers :
          (/\ workers[w].handler \in {"quality", "lipsync", "finalize"}
           /\ ~ workers[w].moved
           /\ workers'[w].moved) =>
              workers[w].output_path \in DOMAIN fs']_vars

\* C27: every segment of the plan, beat-synced or sequential, has
\* start_time >= 0 and duration >= 0, ends within the probed duration of its
\* clip, has output_start >= 0, and output_start never decreases along the
\* plan.
C27_SegmentFieldsInRange ==
    \A k \in 1..Len(clip_segments) :
        LET seg == clip_segments[k]
        IN  /\ seg.start_time >= 0
            /\ seg.duration >= 0
            /\ seg.start_time + seg.duration <= clip_durations[seg.clip]
            /\ seg.output_start >= 0
            /\ k > 1 => clip_segments[k - 1].output_start <= seg.output_start

\* A finished beat-synced plan of several segments, one of them cut to its
\* window and one taking its clip whole.
C27_Witness ==
    /\ mode = "beat"
    /\ pc = "extract"
    /\ Len(clip_segments) >= 2
    /\ \E k \in 1..Len(clip_segments) :
          clip_segments[k].duration < clip_durations[clip_segments[k].clip]
    /\ \E k \in 1..Len(clip_segments) :
          /\ clip_segments[k].duration = clip_durations[clip_segments[k].clip]
          /\ clip_segments[k].output_start > 0

\* C28: load_beat_data called with the path to which process_audio_file
\* moved an analysed audio file returns the beat grid persisted for that
\* file, whatever name the move gave it.
C28_MovedPathFindsBeats ==
    \A w \in DOMAIN workers :
        (/\ workers[w].handler = "audio"
         /\ workers[w].moved
         /\ reloaded.called
         /\ reloaded.key = workers[w].output_path.stem) =>
            /\ Reloaded # None
            /\ Reloaded.beat_times = analysed[workers[w].file_path.stem].beat_times

\* C29: create_mv_from_clips invocations that run at the same time do not
\* interfere through temp_dir: the deliverable of each is built from the
\* intermediate files of its own plan only.
C29_DeliverableFromOwnPlan ==
    \A c \in DOMAIN invocations :
        invocations[c].output \subseteq {c}

\* The finalize calls that have put their video into a set folder
Placed ==
    {w \in DOMAIN workers :
        workers[w].handler = "finalize"
        /\ workers[w].output_path \in workers[w].made}

\* C30: no two finalize_assets calls put their video into the same set
\* folder, whatever the interleaving and also for clips that share a stem
\* and differ in suffix.
C30_OneSetFolderPerCall ==
    \A v, w \in Placed :
        v # w => workers[v].output_path.sub # workers[w].output_path.sub

====
